---------------------------- MODULE Spec2Model ----------------------------
(***************************************************************************)
(* Model of the reduction kernel of rnenv: src/rnenv/rn/rnreduce.py,       *)
(* src/rnenv/rn/mathfuncs/funcs.py, src/rnenv/rn/linearsops.py,            *)
(* src/rnenv/rn/rnprops.py and the negation of src/rnenv/rn/rn.py, and of  *)
(* the arithmetic of the operation-tree RN of src/rnenv111/rn/rn.py.       *)
(*                                                                         *)
(* A unit is the triple <<coefficient, radicand, index>> (the row          *)
(* [N, M, L] of the 3 x N matrix of the code); unit[1], unit[2], unit[3]   *)
(* here are unit[0], unit[1], unit[2] of the code.  A linear is a sequence *)
(* of units.  The reducers are pure functions of their argument, so the    *)
(* state machine is a caller that picks an argument, calls a reducer,      *)
(* keeps what it returned (or the exception it raised), optionally calls   *)
(* it again on the returned value, and goes back to idle.  The reducers    *)
(* write into the arrays they are given: passed is the argument as the     *)
(* caller finds it after the call.                                         *)
(*                                                                         *)
(* Units are rows of numpy integer arrays, as every caller in the          *)
(* repository (and the test) passes them.                                  *)
(***************************************************************************)
EXTENDS Integers, Sequences, FiniteSets

VARIABLES op, arg, ret, again, passed

vars == <<op, arg, ret, again, passed>>

-----------------------------------------------------------------------------
(* Bounds of the explored inputs.                                          *)

MaxCoef == 3

MaxRad == 36

MaxIdx == 4

MaxLen == 2

(* Bound of the integers passed to factorization.                          *)
MaxN == 60

RawUnits ==
    {<<c, r, i>> : c \in -MaxCoef..MaxCoef, r \in -MaxRad..MaxRad, i \in -MaxIdx..MaxIdx}

-----------------------------------------------------------------------------
(* Integer helpers: src/rnenv/rn/mathfuncs/funcs.py                        *)

Abs(x) == IF x < 0 THEN -x ELSE x

RECURSIVE Pow(_, _)
Pow(b, e) == IF e <= 0 THEN 1 ELSE b * Pow(b, e - 1)

RECURSIVE math_gcd(_, _)
math_gcd(a, b) == IF b = 0 THEN Abs(a) ELSE math_gcd(b, Abs(a) % Abs(b))

RECURSIVE reduce_math_gcd(_, _)
reduce_math_gcd(acc, int_list) ==
    IF int_list = <<>> THEN acc
    ELSE reduce_math_gcd(math_gcd(acc, Head(int_list)), Tail(int_list))

(* gcd with its zero test inverted.                                        *)
gcd_inverted(int_list) ==
    IF \E k \in DOMAIN int_list : int_list[k] = 0
    THEN reduce_math_gcd(Head(int_list), Tail(int_list))
    ELSE 1

(* gcd(int_list): reduce(math_gcd, int_list) if 0 not in int_list else 1   *)
gcd(int_list) ==
    IF \E k \in DOMAIN int_list : int_list[k] = 0 THEN 1
    ELSE reduce_math_gcd(Head(int_list), Tail(int_list))

(* The candidates without 3: chain([2], count(5, 2)).                      *)
NextCandidate_from_five(i) == IF i = 2 THEN 5 ELSE i + 2

(* The candidates never advancing.                                         *)
NextCandidate_same(i) == i

(* The candidates of the trial division: chain([2], count(3, 2)).          *)
NextCandidate(i) == IF i = 2 THEN 3 ELSE i + 2

(* The inner loop: while n % i == 0: n //= i; yield i.                     *)
RECURSIVE StripFactor(_, _)
StripFactor(n, i) ==
    IF n % i = 0
    THEN LET rest == StripFactor(n \div i, i)
         IN  [n |-> rest.n, yielded |-> <<i>> \o rest.yielded]
    ELSE [n |-> n, yielded |-> <<>>]

(* The for loop over the candidates; i > stop with stop = n0 ** 0.5 + 2    *)
(* is (i - 2) * (i - 2) > n0 for the integers i >= 2 and n0 >= 0.          *)
RECURSIVE FactorLoop(_, _, _)
FactorLoop(n, i, n0) ==
    IF n <= 1 THEN <<>>
    ELSE IF (i - 2) * (i - 2) > n0 THEN <<n>>
    ELSE LET s == StripFactor(n, i)
         IN  s.yielded \o FactorLoop(s.n, NextCandidate(i), n0)

(* factorization_generator(n): the sequence of the values it yields.       *)
factorization_generator(n) ==
    LET n0 == Abs(n)
    IN  (IF n0 \in {0, 1} THEN <<n0>> ELSE <<>>) \o FactorLoop(n0, 2, n0)

(* factorization(n): the dict factor -> exponent, as a function.           *)
factorization(n) ==
    LET ys == factorization_generator(n)
    IN  [f \in {ys[k] : k \in DOMAIN ys} |->
            Cardinality({k \in DOMAIN ys : ys[k] = f})]

(* The keys of a dict in ascending order (the order of insertion by the    *)
(* trial division).                                                        *)
RECURSIVE SortedKeys(_)
SortedKeys(S) ==
    IF S = {} THEN <<>>
    ELSE LET m == CHOOSE x \in S : \A y \in S : x <= y
         IN  <<m>> \o SortedKeys(S \ {m})

(* [factorized[f] for f in factorized]                                     *)
DictValues(factorized) ==
    LET ks == SortedKeys(DOMAIN factorized)
    IN  [k \in DOMAIN ks |-> factorized[ks[k]]]

(* The product of factor ** exponent over the entries of a dict.           *)
RECURSIVE PowerProduct(_)
PowerProduct(exps) ==
    IF DOMAIN exps = {} THEN 1
    ELSE LET f == CHOOSE x \in DOMAIN exps : TRUE
         IN  Pow(f, exps[f]) * PowerProduct([g \in DOMAIN exps \ {f} |-> exps[g]])

(* build_factorized(factorized): the product of factor ** exponent.        *)
build_factorized(factorized) == PowerProduct(factorized)

-----------------------------------------------------------------------------
(* Unit reducer: src/rnenv/rn/rnreduce.py                                  *)

Returned(v) == [status |-> "ok", val |-> v]

Raised(e) == [status |-> e, val |-> <<>>]

None == [status |-> "none", val |-> <<>>]

(* radical_exc without its last case.                                      *)
radical_exc_two_cases(rad, index) ==
    \/ index % 2 = 0 /\ rad < 0
    \/ index = 0

(* __IRR.radical_exc(rad, index): TRUE when it raises ValueError.          *)
radical_exc(rad, index) ==
    \/ index % 2 = 0 /\ rad < 0
    \/ index = 0
    \/ index < 0 /\ rad = 0

(* special_cases dropping the radicand of an index-1 unit.                 *)
special_cases_drop_rad(coefficient, rad, index) ==
    IF index = 1 THEN <<coefficient, 1, 1>>
    ELSE IF rad \in {0, 1, -1} THEN <<coefficient * rad, 1, 1>>
    ELSE <<coefficient, rad, index>>

(* __IRR.special_cases(coefficient, rad, index)                            *)
special_cases(coefficient, rad, index) ==
    IF index = 1 THEN <<coefficient * rad, 1, 1>>
    ELSE IF rad \in {0, 1, -1} THEN <<coefficient * rad, 1, 1>>
    ELSE <<coefficient, rad, index>>

(* The factors the loop brings out of the root:                            *)
(* if abs(unit[2]) < factorized[f].                                        *)
Extracted(factorized, index) ==
    {f \in DOMAIN factorized : Abs(index) < factorized[f]}

(* __reduce_integer_unit(unit).  With a negative index the exponent        *)
(* factorized[f] // unit[2] of an extracted factor is negative, and the    *)
(* integer power f ** (negative numpy integer) raises ValueError.          *)
reduce_integer_unit(unit) ==
    IF unit[1] = 0 THEN Returned(<<0, 0, 1>>)
    ELSE IF radical_exc(unit[2], unit[3]) THEN Raised("ValueError")
    ELSE
      LET u == special_cases(unit[1], unit[2], unit[3])
          sign_flag == u[2] < 0
          factorized == factorization(u[2])
          _gcd == gcd(DictValues(factorized) \o <<u[3]>>)
          reduced == IF _gcd # 1
                     THEN [f \in DOMAIN factorized |-> factorized[f] \div _gcd]
                     ELSE factorized
          index == IF _gcd # 1 THEN u[3] \div _gcd ELSE u[3]
          out == Extracted(reduced, index)
      IN  IF index < 0 /\ out # {} THEN Raised("ValueError")
          ELSE
            LET moved == [f \in out |-> reduced[f] \div index]
                coefficient == u[1] * PowerProduct(moved)
                residual == [f \in DOMAIN reduced |->
                               IF f \in out THEN reduced[f] % index ELSE reduced[f]]
                rad == IF sign_flag THEN build_factorized(residual) * (-1)
                       ELSE build_factorized(residual)
            IN  Returned(special_cases(coefficient, rad, index))

-----------------------------------------------------------------------------
(* Linear reducer: src/rnenv/rn/rnreduce.py                                *)

(* __reduce_unit(unit): the rows are integer rows, so the integer reducer. *)
reduce_unit(unit) == reduce_integer_unit(unit)

(* The raw units a caller puts in a linear.                                *)
LinearUnits ==
    {<<c, r, i>> : c \in {-1, 0, 1, 2}, r \in {-2, 1, 2, 3}, i \in {1, 2, 3}}

RawLinears == UNION {[1..n -> LinearUnits] : n \in 1..MaxLen}

(* sum(linear[logical_and(linear[:, 1] == one, linear[:, 2] == two)][:, 0]) *)
RECURSIVE GroupSum(_, _, _)
GroupSum(linear, one, two) ==
    IF linear = <<>> THEN 0
    ELSE (IF Head(linear)[2] = one /\ Head(linear)[3] = two THEN Head(linear)[1] ELSE 0)
         + GroupSum(Tail(linear), one, two)

(* The inner loop over unq_two for one value of unq_one: the rows stacked. *)
RECURSIVE StackTwo(_, _, _)
StackTwo(linear, one, unq_two) ==
    IF unq_two = <<>> THEN <<>>
    ELSE LET two == Head(unq_two)
             s == GroupSum(linear, one, two)
         IN  (IF s # 0 THEN <<(<<s, one, two>>)>> ELSE <<>>)
             \o StackTwo(linear, one, Tail(unq_two))

(* The outer loop over unq_one.                                            *)
RECURSIVE StackOne(_, _, _)
StackOne(linear, unq_one, unq_two) ==
    IF unq_one = <<>> THEN <<>>
    ELSE StackTwo(linear, Head(unq_one), unq_two)
         \o StackOne(linear, Tail(unq_one), unq_two)

(* The merging loops stacking every nonzero unit instead of each group.    *)
MergeUnits_per_unit(linear) ==
    LET NonZero(unit) == unit[1] # 0
    IN  SelectSeq(linear, NonZero)

(* The merging loops: the rows stacked under the first row [0, 0, 0].      *)
MergeUnits(linear) ==
    LET unq_one == SortedKeys({linear[k][2] : k \in DOMAIN linear})
        unq_two == SortedKeys({linear[k][3] : k \in DOMAIN linear})
    IN  StackOne(linear, unq_one, unq_two)

(* The orders of the rows numbered in rest in which the key of column col  *)
(* never decreases: any row of least key first.                            *)
RECURSIVE RowOrders(_, _, _)
RowOrders(arr, col, rest) ==
    IF rest = {} THEN {<<>>}
    ELSE UNION {{<<k>> \o order : order \in RowOrders(arr, col, rest \ {k})}
                   : k \in {j \in rest : \A h \in rest : arr[j][col] <= arr[h][col]}}

(* arr[arr[:, col].argsort()]: argsort's default kind is not stable, so    *)
(* rows of equal key come out in any order.                                *)
ArgSort(arr, col) ==
    {[k \in DOMAIN arr |-> arr[p[k]]] : p \in RowOrders(arr, col, DOMAIN arr)}

(* The two sorts in the other order, by radicand and then by index.        *)
OrderRows_index_last(arr) == UNION {ArgSort(byRad, 3) : byRad \in ArgSort(arr, 2)}

(* The two sorts of the code, by index and then by radicand.               *)
OrderRows(arr) == UNION {ArgSort(byIndex, 2) : byIndex \in ArgSort(arr, 3)}

(* The units of the linear one by one through __reduce_unit: the results,  *)
(* or the exception of the first unit that raises.                         *)
ReduceUnits(linear) ==
    CHOOSE r \in {IF \E k \in DOMAIN units : units[k].status # "ok"
                  THEN Raised("ValueError")
                  ELSE Returned([k \in DOMAIN units |-> units[k].val])
                     : units \in {[k \in DOMAIN linear |-> reduce_unit(linear[k])]}} : TRUE

(* The rows of the array given to __reduce_linear, after the call: the     *)
(* loop writes each reduced unit back into its row, linear[p] =            *)
(* __reduce_unit(unit), until a unit raises.                               *)
AfterReduceLinear(linear) ==
    CHOOSE after \in {[k \in DOMAIN linear |->
                          IF \A h \in 1..k : units[h].status = "ok"
                          THEN units[k].val ELSE linear[k]]
                         : units \in {[k \in DOMAIN linear |-> reduce_unit(linear[k])]}} : TRUE

(* __reduce_linear(linear): the results it can return.                     *)
reduce_linear(linear) ==
    UNION {
        IF units.status # "ok" THEN {units}
        ELSE UNION {
            IF stacked = <<>> THEN {Returned(<<(<<0, 0, 1>>)>>)}
            ELSE {Returned(Tail(arr)) : arr \in OrderRows(<<(<<0, 0, 0>>)>> \o stacked)}
            : stacked \in {MergeUnits(units.val)}}
        : units \in {ReduceUnits(linear)}}

-----------------------------------------------------------------------------
(* Linears operations: src/rnenv/rn/linearsops.py                          *)

(* Bound of the length of the numerator and of the denominator of a raw    *)
(* real number array.                                                      *)
MaxRnLen == 2

(* The raw units a caller puts in a real number array, in a fixed order;   *)
(* [0, 1, 1] is the unit that fills the shorter of numerator and           *)
(* denominator.                                                            *)
RnUnits ==
    << <<0, 1, 1>>, <<1, 1, 1>>, <<2, 1, 1>>, <<1, 2, 2>>,
       <<-1, 2, 2>>, <<2, 2, 2>>, <<1, 3, 2>>, <<1, 2, 3>> >>

(* The raw linears of at most MaxRnLen units, one per multiset of units    *)
(* (the units in the order of RnUnits).                                    *)
RnLinearsOfLen(n) ==
    {[k \in 1..n |-> RnUnits[f[k]]] :
        f \in {g \in [1..n -> DOMAIN RnUnits] :
                  \A k \in 1..(n - 1) : g[k] <= g[k + 1]}}

RnLinears == UNION {RnLinearsOfLen(n) : n \in 1..MaxRnLen}

(* The linears __reduce_linear returns for them.                           *)
ReducedLinears ==
    {r.val : r \in {x \in UNION {reduce_linear(l) : l \in RnLinears} : x.status = "ok"}}

(* Reduced linears of one odd root of a negative radicand: the cube roots  *)
(* of -2 and of -3, the latter with a negative coefficient.                *)
OddRootFactors ==
    { << <<1, -2, 3>> >>, << <<-1, -3, 3>> >> }

(* The linears of the example of the docstring of linears_product.         *)
ExampleFactors ==
    { << <<4, 1, 1>>, <<2, 2, 2>> >>, << <<5, 1, 1>>, <<-6, 3, 2>> >> }

(* numpy.lcm: never negative, 0 when an argument is 0.                     *)
lcm(a, b) == IF a = 0 \/ b = 0 THEN 0 ELSE Abs(a * b) \div math_gcd(a, b)

(* // of numpy integers: floor division, 0 when the divisor is 0.          *)
FloorDivide(x, y) ==
    IF y = 0 THEN 0
    ELSE IF y > 0 THEN x \div y
    ELSE (-x) \div (-y)

(* One row of the result: the simple product when one of the two units is  *)
(* [., 1, 1], the complex product otherwise.  A numpy integer raised to a  *)
(* negative power raises ValueError.                                       *)
PairProduct(one, two) ==
    IF (one[2] = 1 /\ one[3] = 1) \/ (two[2] = 1 /\ two[3] = 1)
    THEN Returned(<<one[1] * two[1], one[2] * two[2], one[3] * two[3]>>)
    ELSE IF \/ FloorDivide(lcm(one[3], two[3]), one[3]) < 0
            \/ FloorDivide(lcm(one[3], two[3]), two[3]) < 0
         THEN Raised("ValueError")
         ELSE Returned(<<one[1] * two[1],
                         Pow(one[2], FloorDivide(lcm(one[3], two[3]), one[3]))
                           * Pow(two[2], FloorDivide(lcm(one[3], two[3]), two[3])),
                         lcm(one[3], two[3])>>)

(* The rows in the order of itertools.product(a, b).                       *)
ProductRows(a, b) ==
    [k \in 1..(Len(a) * Len(b)) |->
        PairProduct(a[((k - 1) \div Len(b)) + 1], b[((k - 1) % Len(b)) + 1])]

(* linears_product with the pairs in the order of product(b, a).           *)
linears_product_b_first(a, b) ==
    IF \E k \in 1..(Len(a) * Len(b)) : ProductRows(b, a)[k].status # "ok"
    THEN Raised("ValueError")
    ELSE Returned([k \in 1..(Len(a) * Len(b)) |-> ProductRows(b, a)[k].val])

(* linears_product(a, b)                                                   *)
linears_product(a, b) ==
    IF \E k \in 1..(Len(a) * Len(b)) : ProductRows(a, b)[k].status # "ok"
    THEN Raised("ValueError")
    ELSE Returned([k \in 1..(Len(a) * Len(b)) |-> ProductRows(a, b)[k].val])

(* linear_conjugate(a): b = copy(a); b[1, 0] = -b[1, 0]                    *)
linear_conjugate(a) == [a EXCEPT ![2] = <<-a[2][1], a[2][2], a[2][3]>>]

-----------------------------------------------------------------------------
(* The fraction reducer: src/rnenv/rn/rnreduce.py, reduce_rn and below.    *)
(*                                                                         *)
(* A real number array is the pair <<num, den>> of two linears.  What      *)
(* reduce_rn returns is kept with the values of num and den after each     *)
(* step of __parse_num_den: linears (both through __reduce_linear),        *)
(* common (after __reduce_num_den) and parsed (what __parse_num_den        *)
(* returns).                                                               *)

(* The decimals of round(factor, 5).                                       *)
RoundDigits == 5

(* Two arrays with a denominator of two units: the example of binomial     *)
(* rationalization, 1 / (4 + 2 root 2), and 1 / (2 root 3 + root 12).      *)
ExampleArrays ==
    { << << <<1, 1, 1>>, <<0, 1, 1>> >>, << <<4, 1, 1>>, <<2, 2, 2>> >> >>,
      << << <<1, 1, 1>>, <<0, 1, 1>> >>, << <<2, 3, 2>>, <<1, 12, 2>> >> >>,
      << << <<2, 3, 2>> >>, << <<4, 3, 2>> >> >>,
      << << <<1, 3, 2>> >>, << <<200001, 3, 2>> >> >>,
      << << <<1, 1, 1>>, <<0, 1, 1>>, <<0, 1, 1>> >>,
         << <<1, 1, 1>>, <<1, 2, 2>>, <<1, 3, 2>> >> >>,
      << << <<1, 2, 2>>, <<1, 3, 2>>, <<0, 1, 1>> >>,
         << <<2, 1, 1>>, <<1, 2, 2>>, <<1, 2, 3>> >> >> }

(* The raw arrays: numerator and denominator of the same length, as the    *)
(* two halves of one numpy array.                                          *)
RnArrays ==
    UNION {RnLinearsOfLen(n) \X RnLinearsOfLen(n) : n \in 1..MaxRnLen}
        \union ExampleArrays

RnOutcome(status, val, linears, common, parsed) ==
    [status |-> status, val |-> val, linears |-> linears,
     common |-> common, parsed |-> parsed]

(* n / m == factor with factor = a0 / b0, on numpy integers: a division by *)
(* zero gives inf, -inf or nan, and nan is equal to nothing.               *)
SameQuotient(n, m, a0, b0) ==
    IF m # 0 /\ b0 # 0 THEN n * b0 = a0 * m
    ELSE /\ m = 0 /\ b0 = 0
         /\ (n > 0 /\ a0 > 0) \/ (n < 0 /\ a0 < 0)

(* are_proportional(a, b)                                                  *)
are_proportional(a, b) ==
    \A k \in DOMAIN a : SameQuotient(a[k], b[k], a[1], b[1])

Coefficients(linear) == [k \in DOMAIN linear |-> linear[k][1]]

(* linear[:, 0] = coef // _gcd                                             *)
DivideCoefficients(linear, _gcd) ==
    [k \in DOMAIN linear |-> <<linear[k][1] \div _gcd, linear[k][2], linear[k][3]>>]

(* (num[:, 1:] == den[:, 1:]).all() for two linears of the same length     *)
SameRadicals(num, den) ==
    \A k \in DOMAIN num : num[k][2] = den[k][2] /\ num[k][3] = den[k][3]

(* int(n / d): the quotient rounded toward zero.                           *)
IntOfQuotient(n, d) ==
    IF (n >= 0) = (d > 0) THEN Abs(n) \div Abs(d) ELSE -(Abs(n) \div Abs(d))

(* round(n / d, 5) == int(n / d): the part after the integer is less than  *)
(* half a unit of the fifth decimal.                                       *)
RoundsToInt(n, d) ==
    (Abs(n) % Abs(d)) * 2 * Pow(10, RoundDigits) < Abs(d)

(* Fraction(n, d): lowest terms, the sign on the numerator.                *)
FractionOf(n, d) ==
    [numerator |-> (IF d < 0 THEN -n ELSE n) \div math_gcd(n, d),
     denominator |-> Abs(d) \div math_gcd(n, d)]

(* The second half of __reduce_num_den: the ratio of two linears with the  *)
(* same radicals and proportional coefficients.  int(n) / int(0) raises.   *)
Collapse(num, den) ==
    IF ~ (/\ Len(num) = Len(den)
          /\ SameRadicals(num, den)
          /\ are_proportional(Coefficients(num), Coefficients(den)))
    THEN Returned(<<num, den>>)
    ELSE IF den[1][1] = 0 THEN Raised("ZeroDivisionError")
    ELSE IF RoundsToInt(num[1][1], den[1][1])
    THEN Returned(<< << <<IntOfQuotient(num[1][1], den[1][1]), 1, 1>> >>,
                     << <<1, 1, 1>> >> >>)
    ELSE Returned(<< << <<FractionOf(num[1][1], den[1][1]).numerator, 1, 1>> >>,
                     << <<FractionOf(num[1][1], den[1][1]).denominator, 1, 1>> >> >>)

(* __reduce_num_den(num, den)                                              *)
reduce_num_den(num, den) ==
    IF gcd(Coefficients(num) \o Coefficients(den)) # 1
    THEN Collapse(DivideCoefficients(num, gcd(Coefficients(num) \o Coefficients(den))),
                  DivideCoefficients(den, gcd(Coefficients(num) \o Coefficients(den))))
    ELSE Collapse(num, den)

(* The new numerator of __rationalize_num_den: the product with a factor,  *)
(* through __reduce_linear; with it the new denominator.                   *)
RationalizedBy(num, factor, den) ==
    UNION {
        IF p.status # "ok" THEN {p}
        ELSE {IF n.status # "ok" THEN n ELSE Returned(<<n.val, den>>)
                 : n \in reduce_linear(p.val)}
        : p \in {linears_product(num, factor)}}

(* __rationalize_num_den(num, den): the pairs it can return.               *)
rationalize_num_den(num, den) ==
    IF Len(den) # 1 /\ \E k \in DOMAIN den : den[k][3] >= 3
    THEN {Returned(<<num, den>>)}
    ELSE RationalizedBy(num,
                        IF Len(den) = 1
                        THEN << <<1, den[1][2], den[1][3] - 1>> >>
                        ELSE linear_conjugate(den),
                        IF Len(den) = 1
                        THEN << <<den[1][2], 1, 1>> >>
                        ELSE << <<den[1][1] * den[1][1] * den[1][2]
                                    - den[2][1] * den[2][1] * den[2][2], 1, 1>> >>)

(* The test without the bound on the length.                               *)
ToRationalize_any_length(den) ==
    \E k \in DOMAIN den : den[k][3] > 1

(* den[den[:, 2] > 1].any() and len(den) < 3                               *)
ToRationalize(den) ==
    /\ \E k \in DOMAIN den : den[k][3] > 1
    /\ Len(den) < 3

(* __parse_num_den from the two reduced linears on.                        *)
ParseReduced(num, den) ==
    UNION {
        IF c.status # "ok"
        THEN {RnOutcome(c.status, <<>>, <<num, den>>, <<>>, <<>>)}
        ELSE IF ToRationalize(c.val[2])
        THEN {IF r.status # "ok"
              THEN RnOutcome(r.status, <<>>, <<num, den>>, c.val, <<>>)
              ELSE RnOutcome("ok", <<>>, <<num, den>>, c.val, r.val)
                 : r \in rationalize_num_den(c.val[1], c.val[2])}
        ELSE {RnOutcome("ok", <<>>, <<num, den>>, c.val, c.val)}
        : c \in {reduce_num_den(num, den)}}

(* __parse_num_den(num, den): num is reduced first, then den.              *)
parse_num_den(num, den) ==
    UNION { UNION {
        IF n.status # "ok" THEN {RnOutcome(n.status, <<>>, <<>>, <<>>, <<>>)}
        ELSE UNION {
            IF d.status # "ok" THEN {RnOutcome(d.status, <<>>, <<>>, <<>>, <<>>)}
            ELSE ParseReduced(n.val, d.val)
            : d \in reduced[den]}
        : n \in reduced[num]}
        : reduced \in {[linear \in {num, den} |-> reduce_linear(linear)]}}

(* A numpy array of one dimension (a row) or of two (a sequence of rows).  *)
Array1(row) == [ndim |-> 1, data |-> row]

Array2(rows) == [ndim |-> 2, data |-> rows]

(* len(x): the rows of a matrix, the elements of a row.                    *)
len(x) == Len(x.data)

(* vstack((x, filler)) with filler the row [0, 1, 1]: array([[0, 1, 1] *   *)
(* diff]) resized to shape (3,) is that one row whatever diff is.          *)
vstack_filler(x) ==
    Array2((IF x.ndim = 1 THEN <<x.data>> ELSE x.data) \o << <<0, 1, 1>> >>)

(* fill_size_difference(a, b): diff is an absolute value, so the branch    *)
(* that fills a is never taken.                                            *)
fill_size_difference(a, b) ==
    IF Abs(len(a) - len(b)) > 0 THEN <<a, vstack_filler(b)>>
    ELSE <<a, b>>

(* array([num, den]): two matrices of the same shape make one array; two   *)
(* of different lengths make an array of two objects or raise ValueError,  *)
(* according to the version of numpy.                                      *)
ArrayOfPair(filled, o) ==
    IF /\ filled[1].ndim = 2 /\ filled[2].ndim = 2
       /\ len(filled[1]) = len(filled[2])
    THEN {[o EXCEPT !.val = <<filled[1].data, filled[2].data>>]}
    ELSE {[o EXCEPT !.val = <<filled[1].data, filled[2].data>>],
          [o EXCEPT !.status = "ValueError"]}

(* reduce_rn testing the numerator before the denominator.                 *)
FinishReduce_num_first(o) ==
    IF o.status # "ok" THEN {o}
    ELSE IF o.parsed[1][1][1] = 0
    THEN ArrayOfPair(fill_size_difference(Array2(o.parsed[1]), Array1(<<1, 1, 1>>)), o)
    ELSE IF o.parsed[2][1][1] = 0 THEN {[o EXCEPT !.status = "ZeroDivisionError"]}
    ELSE ArrayOfPair(fill_size_difference(Array2(o.parsed[1]), Array2(o.parsed[2])), o)

(* reduce_rn after __parse_num_den.                                        *)
FinishReduce(o) ==
    IF o.status # "ok" THEN {o}
    ELSE IF o.parsed[2][1][1] = 0 THEN {[o EXCEPT !.status = "ZeroDivisionError"]}
    ELSE IF o.parsed[1][1][1] = 0
    THEN ArrayOfPair(fill_size_difference(Array2(o.parsed[1]), Array1(<<1, 1, 1>>)), o)
    ELSE ArrayOfPair(fill_size_difference(Array2(o.parsed[1]), Array2(o.parsed[2])), o)

(* The array given to reduce_rn, after the call: rn_array[0] and           *)
(* rn_array[1] are views of it, and __parse_num_den passes them to         *)
(* __reduce_linear, the denominator only once the numerator is reduced.    *)
AfterReduceRn(rn_array) ==
    <<AfterReduceLinear(rn_array[1]),
      IF ReduceUnits(rn_array[1]).status = "ok"
      THEN AfterReduceLinear(rn_array[2]) ELSE rn_array[2]>>

(* reduce_rn(rn_array): the outcomes it can have.                          *)
reduce_rn(rn_array) ==
    UNION {FinishReduce(o) : o \in parse_num_den(rn_array[1], rn_array[2])}

-----------------------------------------------------------------------------
(* Properties and operations of a real number: src/rnenv/rn/rnprops.py,    *)
(* src/rnenv/rn/rn.py                                                      *)

(* The class of one linear of the array; p is 0 for the numerator and 1    *)
(* for the denominator.  The arrays hold integers, so the last case of the *)
(* code ('composed irrational') is never taken.                            *)
LinearClass(lin, p) ==
    IF \A k \in DOMAIN lin : lin[k][2] = 1 /\ lin[k][3] = 1 THEN "rational"
    ELSE IF Len(lin) = 1 /\ p = 0 THEN "simple irrational"
    ELSE "mixed irrational"

(* rn_classification(array): the list of the three classes; the class of   *)
(* the denominator is left empty for an integer.                           *)
rn_classification(array) ==
    IF Len(array[2]) = 1 /\ array[2][1] = <<1, 1, 1>>
    THEN <<"integer", LinearClass(array[1], 0), "">>
    ELSE <<"fraction", LinearClass(array[1], 0), LinearClass(array[2], 1)>>

(* rn_neg with the sign of the denominator changed too.                    *)
rn_neg_both(array) ==
    <<[k \in DOMAIN array[1] |-> <<-array[1][k][1], array[1][k][2], array[1][k][3]>>],
      [k \in DOMAIN array[2] |-> <<-array[2][k][1], array[2][k][2], array[2][k][3]>>]>>

(* rn_neg, on the array of the real number: the sign of every coefficient  *)
(* of the numerator changes, the denominator is kept.                      *)
rn_neg(array) ==
    <<[k \in DOMAIN array[1] |-> <<-array[1][k][1], array[1][k][2], array[1][k][3]>>],
      array[2]>>

-----------------------------------------------------------------------------
(* The operation-tree real number: src/rnenv111/rn/rn.py                   *)
(*                                                                         *)
(* An RN is the record of its op and its terms: op "none" with one integer *)
(* term for the simple RN, op "truediv" with two RN terms for the          *)
(* fraction.  The arithmetic of integer RNs builds no other op: every      *)
(* result below comes from a none_none method.                             *)

(* Bound of the integers the expressions are built from.                   *)
MaxTerm == 3

(* RN(n): the simple RN.                                                   *)
RN(n) == [op |-> "none", terms |-> <<n>>]

(* RN(op=TrueDiv, *data)                                                   *)
RNTrueDiv(num, den) == [op |-> "truediv", terms |-> <<RN(num), RN(den)>>]

(* The integer of term k of a fraction (x[k][0] with k from 0 in the code).*)
TermInt(x, k) == x.terms[k].terms[1]

(* reduce_fraction of mathfuncs/funcs.py: math.gcd is never negative.      *)
reduce_fraction(num, den) ==
    <<FloorDivide(num, math_gcd(num, den)), FloorDivide(den, math_gcd(num, den))>>

(* TrueDiv.none_none(a, b) on the integers of two simple RNs; gcd(0, 0) is *)
(* 0 and the // by it raises.                                              *)
TrueDiv_none_none(a, b) ==
    IF a = 0 /\ b = 0 THEN Raised("ZeroDivisionError")
    ELSE IF reduce_fraction(a, b)[2] = 1
    THEN Returned(RN(reduce_fraction(a, b)[1]))
    ELSE Returned(RNTrueDiv(reduce_fraction(a, b)[1], reduce_fraction(a, b)[2]))

(* TrueDiv(num, den).rv() on two simple RNs: TrueDiv._validate_terms, then *)
(* the none_none method ArithmeticOperation.rv dispatches to.              *)
TrueDivOf(num, den) ==
    IF den = 0 THEN Raised("ZeroDivisionError") ELSE TrueDiv_none_none(num, den)

(* float(x) == 0 as __eq__ computes it: a fraction is zero when its        *)
(* numerator is.                                                           *)
RNIsZero(x) == IF x.op = "none" THEN x.terms[1] = 0 ELSE TermInt(x, 1) = 0

(* Add(a, b).rv().  none_truediv is _fractional_sum(True, False), which    *)
(* reads a[1] of its first argument, the simple RN: IndexError; Add has no *)
(* truediv_none, and the commutative retry calls none_truediv again.       *)
(* truediv_truediv is the same function: a[0] + b * a[1] adds the simple   *)
(* a[0] to the product Mul.truediv_none(b, a[1]).                          *)
Add_rv(a, b) ==
    IF a.op = "none" /\ b.op = "none" THEN Returned(RN(a.terms[1] + b.terms[1]))
    ELSE IF a.op = "none" \/ b.op = "none" THEN Raised("IndexError")
    ELSE CHOOSE r \in {IF prod.status # "ok" THEN prod
                       ELSE IF prod.val.op # "none" THEN Raised("IndexError")
                       ELSE TrueDivOf(TermInt(a, 1) + prod.val.terms[1], TermInt(a, 2))
                          : prod \in {TrueDivOf(TermInt(b, 1) * TermInt(a, 2), TermInt(b, 2))}} : TRUE

(* Sub(a, b).rv(): none_none, truediv_none, none_truediv, truediv_truediv. *)
Sub_rv(a, b) ==
    IF a.op = "none" /\ b.op = "none" THEN Returned(RN(a.terms[1] - b.terms[1]))
    ELSE IF b.op = "none"
    THEN TrueDivOf(TermInt(a, 1) - b.terms[1] * TermInt(a, 2), TermInt(a, 2))
    ELSE IF a.op = "none"
    THEN TrueDivOf(a.terms[1] * TermInt(b, 2) - TermInt(b, 1), TermInt(b, 2))
    ELSE TrueDivOf(TermInt(a, 1) * TermInt(b, 2) - TermInt(b, 1) * TermInt(a, 2),
                   TermInt(a, 2) * TermInt(b, 2))

(* Mul(a, b).rv(): none_none, truediv_none, none_truediv, truediv_truediv. *)
Mul_rv(a, b) ==
    IF a.op = "none" /\ b.op = "none" THEN Returned(RN(a.terms[1] * b.terms[1]))
    ELSE IF b.op = "none" THEN TrueDivOf(TermInt(a, 1) * b.terms[1], TermInt(a, 2))
    ELSE IF a.op = "none" THEN TrueDivOf(TermInt(b, 1) * a.terms[1], TermInt(b, 2))
    ELSE TrueDivOf(TermInt(a, 1) * TermInt(b, 1), TermInt(a, 2) * TermInt(b, 2))

(* TrueDiv(a, b).rv(): _validate_terms raises when b == 0, then none_none, *)
(* truediv_none, none_truediv, truediv_truediv.                            *)
TrueDiv_rv(a, b) ==
    IF RNIsZero(b) THEN Raised("ZeroDivisionError")
    ELSE IF a.op = "none" /\ b.op = "none" THEN TrueDiv_none_none(a.terms[1], b.terms[1])
    ELSE IF b.op = "none" THEN TrueDivOf(TermInt(a, 1), TermInt(a, 2) * b.terms[1])
    ELSE IF a.op = "none" THEN TrueDivOf(a.terms[1] * TermInt(b, 2), TermInt(b, 1))
    ELSE TrueDivOf(TermInt(a, 1) * TermInt(b, 2), TermInt(a, 2) * TermInt(b, 1))

(* RN.__eq__(x, v) with an integer v: float(x) == float(v).  The floats of *)
(* the integers in reach are exact, and n / d is the float of v only when  *)
(* n = v * d.                                                              *)
RNEquals(x, v) ==
    IF x.op = "none" THEN x.terms[1] = v ELSE TermInt(x, 1) = v * TermInt(x, 2)

Operators == {"add", "sub", "mul", "truediv"}

(* a + b, a - b, a * b, a / b of RN.__add__, __sub__, __mul__, __truediv__.*)
Operate(f, a, b) ==
    IF f = "add" THEN Add_rv(a, b)
    ELSE IF f = "sub" THEN Sub_rv(a, b)
    ELSE IF f = "mul" THEN Mul_rv(a, b)
    ELSE TrueDiv_rv(a, b)

-----------------------------------------------------------------------------
(* The caller.                                                             *)

Init ==
    /\ op = "idle"
    /\ arg = <<>>
    /\ ret = None
    /\ again = None
    /\ passed = <<>>

(* riu(sample): one call of __reduce_integer_unit on a raw unit.           *)
CallReduceIntegerUnit ==
    /\ op = "idle"
    /\ \E unit \in RawUnits :
         /\ arg' = unit
         /\ ret' = reduce_integer_unit(unit)
         /\ passed' = unit
    /\ op' = "reduce_integer_unit"
    /\ again' = None

(* A second call of __reduce_integer_unit, on the unit the first returned. *)
ReduceIntegerUnitAgain ==
    /\ op = "reduce_integer_unit"
    /\ ret.status = "ok"
    /\ again.status = "none"
    /\ again' = reduce_integer_unit(ret.val)
    /\ UNCHANGED <<op, arg, ret, passed>>

(* One call of __reduce_linear on a raw linear.                            *)
CallReduceLinear ==
    /\ op = "idle"
    /\ \E linear \in RawLinears :
         /\ arg' = linear
         /\ ret' \in reduce_linear(linear)
         /\ passed' = AfterReduceLinear(linear)
    /\ op' = "reduce_linear"
    /\ again' = None

(* One call of linears_product on two reduced linears.                     *)
CallLinearsProduct ==
    /\ op = "idle"
    /\ \E a, b \in ReducedLinears \union ExampleFactors \union OddRootFactors :
         /\ arg' = <<a, b>>
         /\ ret' = linears_product(a, b)
         /\ passed' = <<a, b>>
    /\ op' = "linears_product"
    /\ again' = None

(* One call of linear_conjugate on a reduced linear of two units.          *)
CallLinearConjugate ==
    /\ op = "idle"
    /\ \E a \in {l \in ReducedLinears : Len(l) = 2} :
         /\ arg' = a
         /\ ret' = Returned(linear_conjugate(a))
         /\ passed' = a
    /\ op' = "linear_conjugate"
    /\ again' = None

(* One call of reduce_rn on a raw array.                                   *)
CallReduceRn ==
    /\ op = "idle"
    /\ \E rn_array \in RnArrays :
         /\ arg' = rn_array
         /\ ret' \in reduce_rn(rn_array)
         /\ passed' = AfterReduceRn(rn_array)
    /\ op' = "reduce_rn"
    /\ again' = None

(* A second call of reduce_rn, on the array the first returned.            *)
ReduceRnAgain ==
    /\ op = "reduce_rn"
    /\ ret.status = "ok"
    /\ again.status = "none"
    /\ again' \in reduce_rn(ret.val)
    /\ UNCHANGED <<op, arg, ret, passed>>

(* rn_classification on the array reduce_rn returned.                      *)
ClassifyReduced ==
    /\ op = "reduce_rn"
    /\ ret.status = "ok"
    /\ again.status = "none"
    /\ again' = [status |-> "class", val |-> rn_classification(ret.val)]
    /\ UNCHANGED <<op, arg, ret, passed>>

(* -self on the real number of the array reduce_rn returned.               *)
NegateReduced ==
    /\ op = "reduce_rn"
    /\ ret.status = "ok"
    /\ again.status = "none"
    /\ again' = [status |-> "neg", val |-> rn_neg(ret.val)]
    /\ UNCHANGED <<op, arg, ret, passed>>

(* One call of factorization on an integer.                                *)
CallFactorization ==
    /\ op = "idle"
    /\ \E n \in -MaxN..MaxN :
         /\ arg' = n
         /\ ret' = Returned(factorization(n))
         /\ passed' = <<>>
    /\ op' = "factorization"
    /\ again' = None

(* build_factorized on the dict factorization returned.                    *)
BuildFactorized ==
    /\ op = "factorization"
    /\ again.status = "none"
    /\ again' = Returned(build_factorized(ret.val))
    /\ UNCHANGED <<op, arg, ret, passed>>

(* f(RN(a), RN(b)) for one of the four operators on two simple RNs.        *)
CallArithmetic ==
    /\ op = "idle"
    /\ \E f \in Operators, a, b \in -MaxTerm..MaxTerm :
         /\ arg' = <<f, a, b>>
         /\ ret' = Operate(f, RN(a), RN(b))
         /\ passed' = <<>>
    /\ op' = "arithmetic"
    /\ again' = None

(* The RN the first operation returned is the left or the right operand of *)
(* a second one, the other operand being a simple RN.                      *)
ArithmeticAgain ==
    /\ op = "arithmetic"
    /\ ret.status = "ok"
    /\ Len(arg) = 3
    /\ \E g \in Operators, c \in -MaxTerm..MaxTerm, side \in {"left", "right"} :
         /\ arg' = arg \o <<g, side, c>>
         /\ again' = IF side = "left" THEN Operate(g, ret.val, RN(c))
                                       ELSE Operate(g, RN(c), ret.val)
    /\ UNCHANGED <<op, ret, passed>>

(* The generator, statement by statement.  ret holds what it has yielded   *)
(* (val), its local n, the candidate i the for loop is at, and the         *)
(* statement it is at (pc).                                                *)

(* i > stop, with stop = n0 ** 0.5 + 2 computed from abs(n) before the     *)
(* loop: (i - 2) * (i - 2) > n0 for the integers i >= 2 and n0 >= 0.       *)
PastStop(i, n0) == (i - 2) * (i - 2) > n0

(* for factor in factorization_generator(n): n = abs(n); if n in [0, 1]:   *)
(* yield n; stop = n ** 0.5 + 2; the for loop is at its first candidate.   *)
CallFactorizationGenerator ==
    /\ op = "idle"
    /\ \E n \in -MaxN..MaxN :
         /\ arg' = n
         /\ ret' = [status |-> "running",
                    val |-> IF Abs(n) \in {0, 1} THEN <<Abs(n)>> ELSE <<>>,
                    n |-> Abs(n), i |-> 2, pc |-> "for"]
    /\ op' = "factorization_generator"
    /\ again' = None
    /\ passed' = <<>>

(* One pass of the head of the for loop on the candidate i: break when     *)
(* n <= 1, yield n and break when i > stop, enter the while loop           *)
(* otherwise.                                                              *)
GeneratorFor ==
    /\ op = "factorization_generator"
    /\ ret.status = "running"
    /\ ret.pc = "for"
    /\ ret' = IF ret.n <= 1 THEN [ret EXCEPT !.status = "ok"]
              ELSE IF PastStop(ret.i, Abs(arg))
              THEN [ret EXCEPT !.status = "ok", !.val = ret.val \o <<ret.n>>]
              ELSE [ret EXCEPT !.pc = "while"]
    /\ UNCHANGED <<op, arg, again, passed>>

(* while n % i == 0: n //= i; yield i.  When the test fails the for loop   *)
(* takes its next candidate.                                               *)
GeneratorWhile ==
    /\ op = "factorization_generator"
    /\ ret.status = "running"
    /\ ret.pc = "while"
    /\ ret' = IF ret.n % ret.i = 0
              THEN [ret EXCEPT !.n = ret.n \div ret.i, !.val = ret.val \o <<ret.i>>]
              ELSE [ret EXCEPT !.i = NextCandidate(ret.i), !.pc = "for"]
    /\ UNCHANGED <<op, arg, again, passed>>

(* The caller drops the result and is ready for the next call; the loop    *)
(* that consumes a generator leaves it when the generator has ended.       *)
Done ==
    /\ op # "idle"
    /\ ret.status # "running"
    /\ op' = "idle"
    /\ arg' = <<>>
    /\ ret' = None
    /\ again' = None
    /\ passed' = <<>>

Next ==
    \/ CallReduceIntegerUnit
    \/ ReduceIntegerUnitAgain
    \/ CallReduceLinear
    \/ CallLinearsProduct
    \/ CallLinearConjugate
    \/ CallReduceRn
    \/ ReduceRnAgain
    \/ ClassifyReduced
    \/ NegateReduced
    \/ CallFactorization
    \/ BuildFactorized
    \/ CallArithmetic
    \/ ArithmeticAgain
    \/ Done

Spec == Init /\ [][Next]_vars

(* The consumer of factorization_generator alone: the loop of              *)
(* factorization asks for the next value until the generator ends, and the *)
(* generator runs on each time it is asked.                                *)
GeneratorNext ==
    \/ CallFactorizationGenerator
    \/ GeneratorFor
    \/ GeneratorWhile
    \/ Done

GeneratorSpec ==
    /\ Init
    /\ [][GeneratorNext]_vars
    /\ WF_vars(GeneratorFor)
    /\ WF_vars(GeneratorWhile)

-----------------------------------------------------------------------------
(* The real number a unit denotes, compared exactly.                       *)
(*                                                                         *)
(* |c| * |r| ^ (1/i) = |c'| * |r'| ^ (1/i') is, raised to the power i*i',  *)
(* |c|^(i*i') * |r|^(i') = |c'|^(i*i') * |r'|^(i).  Both sides are         *)
(* compared prime by prime (the exponent of p on the left is               *)
(* i*i'*v_p(c) + i'*v_p(r)), which is the same equation by unique          *)
(* factorization and keeps the numbers small.                              *)

IsPrime(p) == p >= 2 /\ \A d \in 2..(p - 1) : p % d # 0

Primes == {p \in 2..((MaxCoef + 1) * (MaxRad + 1)) : IsPrime(p)}

(* The exponent of the prime p in n # 0.                                   *)
RECURSIVE Val(_, _)
Val(p, n) == IF n # 0 /\ n % p = 0 THEN 1 + Val(p, n \div p) ELSE 0

Sign(x) == IF x > 0 THEN 1 ELSE IF x < 0 THEN -1 ELSE 0

(* A root the code accepts: none of the three cases of radical_exc.        *)
ValidRoot(u) ==
    /\ u[3] # 0
    /\ ~(u[3] % 2 = 0 /\ u[2] < 0)
    /\ ~(u[3] < 0 /\ u[2] = 0)

UnitIsZero(u) == u[1] = 0 \/ u[2] = 0

UnitSign(u) == Sign(u[1]) * Sign(u[2])

SameValue(u, v) ==
    IF UnitIsZero(u) \/ UnitIsZero(v) THEN UnitIsZero(u) /\ UnitIsZero(v)
    ELSE /\ UnitSign(u) = UnitSign(v)
         /\ \A p \in Primes :
              u[3] * v[3] * Val(p, u[1]) + v[3] * Val(p, u[2])
                = u[3] * v[3] * Val(p, v[1]) + u[3] * Val(p, v[2])

RiuCalled == op = "reduce_integer_unit"

RiuReturned == RiuCalled /\ ret.status = "ok"

LinearReturned == op = "reduce_linear" /\ ret.status = "ok"

-----------------------------------------------------------------------------
(* C1: after __reduce_integer_unit returns for a raw unit with a nonzero   *)
(* coefficient, no prime factor of the returned radicand has an exponent   *)
(* greater than or equal to the (absolute value of the) returned index.    *)
(* Stated for the raw units of index >= 1.                                 *)
C1_PerfectPowersExtracted ==
    (RiuReturned /\ arg[1] # 0 /\ arg[3] >= 1) =>
        \A p \in Primes : Val(p, ret.val[2]) = 0 \/ Val(p, ret.val[2]) < Abs(ret.val[3])

C3_CanonicalUnits ==
    (RiuReturned /\ arg[1] >= 1 /\ arg[2] >= 1 /\ arg[3] >= 1) =>
        \A v \in RawUnits :
            (v[1] >= 1 /\ v[2] >= 1 /\ v[3] >= 1 /\ SameValue(arg, v)) =>
                reduce_integer_unit(v) = ret

(* C4: reducing the unit the reducer returned returns the same triple.     *)
C4_UnitIdempotent ==
    (RiuReturned /\ again.status # "none") => again = ret

C6_CanonicalZero ==
    /\ (RiuCalled /\ arg[1] = 0) => ret = Returned(<<0, 1, 1>>)
    /\ (LinearReturned /\ MergeUnits(ReduceUnits(arg).val) = <<>>) =>
            ret = Returned(<<(<<0, 1, 1>>)>>)

C8_NegativeIndex ==
    (RiuCalled /\ arg[1] # 0 /\ arg[3] < 0 /\ arg[2] # 0 /\ ValidRoot(arg)) =>
        /\ ret.status = "ok"
        /\ SameValue(arg, ret.val)
        /\ (/\ Abs(arg[2]) >= 2
            /\ \A p \in Primes : Val(p, arg[2]) < Abs(arg[3])
            /\ \A d \in 2..Abs(arg[3]) :
                  ~(arg[3] % d = 0 /\ \A p \in Primes : Val(p, arg[2]) % d = 0))
              => ret.val = arg

(* C9: no two units of a linear returned by __reduce_linear share the same *)
(* (radicand, index) pair.                                                 *)
C9_NoDuplicateKeys ==
    LinearReturned =>
        \A a, b \in DOMAIN ret.val :
            a # b => <<ret.val[a][2], ret.val[a][3]>> # <<ret.val[b][2], ret.val[b][3]>>

(* Two raw units of different (radicand, index) that are alike only after  *)
(* unit reduction were merged into one unit.                               *)
C9_Witness ==
    /\ LinearReturned
    /\ Len(arg) = 2
    /\ <<arg[1][2], arg[1][3]>> # <<arg[2][2], arg[2][3]>>
    /\ arg[1][1] # 0 /\ arg[2][1] # 0
    /\ Len(ret.val) = 1
    /\ ret.val[1][1] # 0

(* The groups of the reduced input units with a nonzero sum, as units.     *)
NonzeroGroups(units) ==
    {<<GroupSum(units, units[k][2], units[k][3]), units[k][2], units[k][3]>> :
        k \in {j \in DOMAIN units : GroupSum(units, units[j][2], units[j][3]) # 0}}

(* C10: the linear returned by __reduce_linear holds exactly one unit for  *)
(* each (radicand, index) key of the reduced input units whose             *)
(* coefficients sum to a nonzero value, with that sum as coefficient, and  *)
(* no other unit (negative radicands under odd indexes included).          *)
C10_SumPreserved ==
    (LinearReturned /\ NonzeroGroups(ReduceUnits(arg).val) # {}) =>
        /\ {ret.val[k] : k \in DOMAIN ret.val} = NonzeroGroups(ReduceUnits(arg).val)
        /\ Len(ret.val) = Cardinality(NonzeroGroups(ReduceUnits(arg).val))

-----------------------------------------------------------------------------
(* C11 as stated: the units of every linear returned by __reduce_linear    *)
(* are in ascending order of the key (index, radicand), the index first.   *)
C11_OrderedByIndexThenRadicand ==
    LinearReturned =>
        \A k \in 1..(Len(ret.val) - 1) :
            \/ ret.val[k][3] < ret.val[k + 1][3]
            \/ ret.val[k][3] = ret.val[k + 1][3] /\ ret.val[k][2] <= ret.val[k + 1][2]

(* C11 as amended: the units of every linear returned by __reduce_linear   *)
(* are in ascending order of the radicand, the key of the last sort; the   *)
(* index does not come first.                                              *)
C11_OrderedByRadicand ==
    LinearReturned =>
        \A k \in 1..(Len(ret.val) - 1) : ret.val[k][2] <= ret.val[k + 1][2]

(* A unit of larger index was returned before a unit of smaller index,     *)
(* because its radicand is the smaller one.                                *)
C11_Witness ==
    /\ LinearReturned
    /\ Len(ret.val) = 2
    /\ ret.val[1][1] # 0 /\ ret.val[2][1] # 0
    /\ ret.val[1][2] < ret.val[2][2]
    /\ ret.val[1][3] > ret.val[2][3]

-----------------------------------------------------------------------------
(* The least common multiple of two positive integers, by its definition.  *)
LeastCommonMultiple(i, j) ==
    CHOOSE m \in 1..(i * j) :
        /\ m % i = 0 /\ m % j = 0
        /\ \A n \in 1..(m - 1) : n % i # 0 \/ n % j # 0

(* The product of two units as the specification gives it.                 *)
UnitProduct(u, v) ==
    IF u[3] = 1 \/ v[3] = 1
    THEN <<u[1] * v[1], u[2] * v[2], u[3] * v[3]>>
    ELSE <<u[1] * v[1],
           Pow(u[2], LeastCommonMultiple(u[3], v[3]) \div u[3])
             * Pow(v[2], LeastCommonMultiple(u[3], v[3]) \div v[3]),
           LeastCommonMultiple(u[3], v[3])>>

ProductCalled == op = "linears_product"

(* C12: linears_product(a, b) of two reduced linears (units of positive    *)
(* index) returns len(a)*len(b)                                            *)
(* units, the one of the pair (a[i], b[j]) at row i*len(b)+j (row-major):  *)
(* the component-wise product when one unit of the pair is rational, and   *)
(* (c*c', r^(L/i) * r'^(L/i'), L) with L the lcm of the indexes otherwise; *)
(* (4 + 2 root 2)(5 - 6 root 3) gives (20,1,1), (-24,3,2), (10,2,2),       *)
(* (-12,6,2).                                                              *)
C12_ProductRowMajor ==
    ProductCalled =>
        /\ ret.status = "ok"
        /\ Len(ret.val) = Len(arg[1]) * Len(arg[2])
        /\ \A i \in 1..Len(arg[1]), j \in 1..Len(arg[2]) :
              ret.val[(i - 1) * Len(arg[2]) + j] = UnitProduct(arg[1][i], arg[2][j])
        /\ arg = << << <<4, 1, 1>>, <<2, 2, 2>> >>, << <<5, 1, 1>>, <<-6, 3, 2>> >> >>
              => ret.val = << <<20, 1, 1>>, <<-24, 3, 2>>, <<10, 2, 2>>, <<-12, 6, 2>> >>

(* The product of the example was computed, with its rational pair, its    *)
(* two mixed pairs and its pair of two roots.                              *)
C12_Witness ==
    /\ ProductCalled
    /\ arg = << << <<4, 1, 1>>, <<2, 2, 2>> >>, << <<5, 1, 1>>, <<-6, 3, 2>> >> >>
    /\ ret.status = "ok"
    /\ Len(ret.val) = 4

-----------------------------------------------------------------------------
RnCalled == op = "reduce_rn"

RnReturned == RnCalled /\ ret.status = "ok"

(* Every unit of the linear is rational: radicand 1 and index 1.           *)
AllRational(linear) ==
    \A k \in DOMAIN linear : linear[k][2] = 1 /\ linear[k][3] = 1

(* The absolute values of the nonzero coefficients of the pair.            *)
NonzeroCoefficients(pair) ==
    {Abs(pair[h][k][1]) : <<h, k>> \in {x \in {1, 2} \X (DOMAIN pair[1] \union DOMAIN pair[2]) :
                                            x[2] \in DOMAIN pair[x[1]]}} \ {0}

(* Some integer above 1 divides every element of S.                        *)
HaveCommonFactor(S) ==
    \E d \in UNION {2..c : c \in S} : \A c \in S : c % d = 0

(* C13: in every pair returned by reduce_rn whose units are all rational,  *)
(* the nonzero coefficients of numerator and denominator have no common    *)
(* factor, whichever path of the reduction produced the pair.              *)
C13_LowestTerms ==
    (RnReturned /\ AllRational(ret.val[1]) /\ AllRational(ret.val[2]))
        => ~ HaveCommonFactor(NonzeroCoefficients(ret.val))

-----------------------------------------------------------------------------
(* The exact value of a sum of rational numbers and square roots.          *)
(*                                                                         *)
(* A term <<c, m>> stands for c * root(m), m > 0.  With m = q * q * s and  *)
(* s square-free it is (c * q) * root(s), and the square roots of distinct *)
(* square-free integers are linearly independent over the rationals: two   *)
(* sums are equal exactly when, for every square-free s, the coefficients  *)
(* of root(s) add up to the same integer.                                  *)

SquareFreePart(m) ==
    CHOOSE s \in 1..m :
        /\ \E q \in 1..m : q * q * s = m
        /\ \A t \in 1..(s - 1) : \A q \in 1..m : q * q * t # m

SquareRootPart(m) == CHOOSE q \in 1..m : q * q * SquareFreePart(m) = m

(* The unit <<c, r, i>> of index 1 or 2 as a term.                         *)
TermOfUnit(u) == IF u[3] = 1 THEN <<u[1] * u[2], 1>> ELSE <<u[1], u[2]>>

(* The terms of the product of two linears of units of index 1 or 2.       *)
ProductTerms(a, b) ==
    [k \in 1..(Len(a) * Len(b)) |->
        <<TermOfUnit(a[((k - 1) \div Len(b)) + 1])[1]
            * TermOfUnit(b[((k - 1) % Len(b)) + 1])[1],
          TermOfUnit(a[((k - 1) \div Len(b)) + 1])[2]
            * TermOfUnit(b[((k - 1) % Len(b)) + 1])[2]>>]

(* The coefficient of root(s) in the sum of the first n terms.             *)
RECURSIVE RootCoefficient(_, _, _)
RootCoefficient(terms, s, n) ==
    IF n = 0 THEN 0
    ELSE RootCoefficient(terms, s, n - 1)
           + (IF terms[n][1] # 0 /\ SquareFreePart(terms[n][2]) = s
              THEN terms[n][1] * SquareRootPart(terms[n][2])
              ELSE 0)

(* The sum of the terms as the set of its nonzero <<s, coefficient>>.      *)
ExactValue(terms) ==
    {x \in {<<SquareFreePart(terms[k][2]),
              RootCoefficient(terms, SquareFreePart(terms[k][2]), Len(terms))>> :
               k \in {j \in DOMAIN terms : terms[j][1] # 0}} : x[2] # 0}

Quadratic(linear) ==
    \A k \in DOMAIN linear :
        linear[k][3] \in {1, 2} /\ (linear[k][2] > 0 \/ linear[k][1] = 0)

(* __rationalize_num_den was called on a denominator of two units, both of *)
(* index at most 2 and one of index 2.                                     *)
BinomialCase ==
    /\ RnCalled
    /\ ret.common # <<>>
    /\ Len(ret.common[2]) = 2
    /\ \A k \in {1, 2} : ret.common[2][k][3] \in {1, 2}
    /\ \E k \in {1, 2} : ret.common[2][k][3] = 2

(* C14: for a reduced denominator of two units of index at most 2, one of  *)
(* them of index 2, __rationalize_num_den returns the single unit          *)
(* (c0*c0*r0 - c1*c1*r1, 1, 1) as denominator and a numerator that keeps   *)
(* the value of the fraction (the new denominator is not zero, and new     *)
(* numerator times old denominator equals old numerator times new          *)
(* denominator, compared exactly for numerators of index at most 2);       *)
(* [(1,1,1)] over [(4,1,1),(2,2,2)] becomes [(4,1,1),(-2,2,2)] over        *)
(* [(8,1,1)].                                                              *)
C14_BinomialRationalization ==
    BinomialCase =>
        /\ ret.parsed # <<>>
        /\ ret.parsed[2][1][1] # 0
        /\ ret.parsed[2] =
              << <<ret.common[2][1][1] * ret.common[2][1][1] * ret.common[2][1][2]
                     - ret.common[2][2][1] * ret.common[2][2][1] * ret.common[2][2][2],
                   1, 1>> >>
        /\ Quadratic(ret.common[1]) =>
              /\ Quadratic(ret.parsed[1])
              /\ ExactValue(ProductTerms(ret.parsed[1], ret.common[2]))
                   = ExactValue(ProductTerms(ret.common[1], ret.parsed[2]))
        /\ arg = << << <<1, 1, 1>>, <<0, 1, 1>> >>, << <<4, 1, 1>>, <<2, 2, 2>> >> >>
              => ret.parsed = << << <<4, 1, 1>>, <<-2, 2, 2>> >>, << <<8, 1, 1>> >> >>

-----------------------------------------------------------------------------
UnitTerms(linear) == [k \in DOMAIN linear |-> TermOfUnit(linear[k])]

(* The raw linear, of units of index 1 or 2, has the value zero.           *)
IsZeroLinear(linear) == Quadratic(linear) /\ ExactValue(UnitTerms(linear)) = {}

(* C15: reduce_rn raises ZeroDivisionError and returns nothing whenever    *)
(* the raw denominator has the value zero (one zero unit, several zero     *)
(* units, or units that cancel), whatever the numerator is.                *)
C15_ZeroDenominatorRaises ==
    (RnCalled /\ IsZeroLinear(arg[2]))
        => ret.status = "ZeroDivisionError" /\ ret.val = <<>>

(* root 2 - root 2 as denominator of a nonzero numerator, and of the zero  *)
(* numerator, raised ZeroDivisionError.                                    *)
C15_Witness ==
    /\ RnCalled
    /\ arg[2] = << <<1, 2, 2>>, <<-1, 2, 2>> >>
    /\ ret.status = "ZeroDivisionError"

(* C16: when the numerator passed to reduce_rn has the value zero and the  *)
(* denominator has not, the denominator of the returned pair is exactly    *)
(* the single unit (1, 1, 1).                                              *)
C16_ZeroNumeratorOverOne ==
    (RnReturned /\ IsZeroLinear(arg[1])) => ret.val[2] = << <<1, 1, 1>> >>

(* C17: when reduce_rn succeeds on a raw pair, reduce_rn on the returned   *)
(* pair succeeds and returns the same units in the same order.             *)
C17_RnIdempotent ==
    (RnCalled /\ again.status \notin {"none", "class", "neg"})
        => again.status = "ok" /\ again.val = ret.val

-----------------------------------------------------------------------------
Classified == RnCalled /\ again.status = "class"

(* The linear has the value 1.                                             *)
IsOne(linear) == Quadratic(linear) /\ ExactValue(UnitTerms(linear)) = {<<1, 1>>}

(* C18: rn_classification tags a pair produced by reduce_rn 'integer'      *)
(* exactly when its denominator has the value 1, whatever the length of    *)
(* the numerator, and 'fraction' otherwise; the reduced zero and the       *)
(* numerators of several units over 1 are tagged 'integer'.                *)
C18_IntegerIffDenominatorOne ==
    Classified =>
        /\ again.val[1] \in {"integer", "fraction"}
        /\ again.val[1] = "integer" <=> IsOne(ret.val[2])

Negated == RnCalled /\ again.status = "neg"

FactorizationCalled == op = "factorization"

(* C20: build_factorized(factorization(n)) is abs(n) for every integer n,  *)
(* 0 and 1 included, and for abs(n) >= 2 every key of factorization(n) is  *)
(* a prime with its exact multiplicity in abs(n) as exponent.              *)
C20_FactorizationRoundTrip ==
    FactorizationCalled =>
        /\ again.status = "ok" => again.val = Abs(arg)
        /\ Abs(arg) >= 2 =>
              \A p \in DOMAIN ret.val :
                  /\ IsPrime(p)
                  /\ ret.val[p] >= 1
                  /\ ret.val[p] = Val(p, Abs(arg))

(* -12 = -(2 * 2 * 3) was factorized and built back to 12.                 *)
C20_Witness ==
    /\ FactorizationCalled
    /\ arg = -12
    /\ DOMAIN ret.val = {2, 3}
    /\ again.status = "ok"
    /\ again.val = 12

-----------------------------------------------------------------------------
(* The arithmetic of integer RNs (rnenv111).                               *)

ArithmeticCalled == op = "arithmetic"

(* The division x / y of two integers is exact.                            *)
ExactDivision(f, x, y) == f = "truediv" => y # 0 /\ x % Abs(y) = 0

(* The integer value of x f y, the division being exact.                   *)
IntValue(f, x, y) ==
    IF f = "add" THEN x + y
    ELSE IF f = "sub" THEN x - y
    ELSE IF f = "mul" THEN x * y
    ELSE FloorDivide(x, y)

(* The integer operands of the second operation.                           *)
SecondLeft ==
    IF arg[5] = "left" THEN IntValue(arg[1], arg[2], arg[3]) ELSE arg[6]

SecondRight ==
    IF arg[5] = "left" THEN arg[6] ELSE IntValue(arg[1], arg[2], arg[3])

(* C21: an expression of integer RNs with +, -, * and / whose divisions    *)
(* are all exact evaluates to an RN that compares equal to the integer     *)
(* value of the expression; the sum, difference and product of two simple  *)
(* RNs are the simple RN of the integer result, and the exact quotient of  *)
(* two simple RNs is an RN equal to the quotient.                          *)
C21_ExactArithmetic ==
    ArithmeticCalled /\ ExactDivision(arg[1], arg[2], arg[3]) =>
        /\ ret.status = "ok"
        /\ RNEquals(ret.val, IntValue(arg[1], arg[2], arg[3]))
        /\ arg[1] # "truediv" => ret.val = RN(IntValue(arg[1], arg[2], arg[3]))
        /\ Len(arg) = 6 /\ ExactDivision(arg[4], SecondLeft, SecondRight) =>
              /\ again.status = "ok"
              /\ RNEquals(again.val, IntValue(arg[4], SecondLeft, SecondRight))

(* C27: TrueDiv.none_none(a, b) with b # 0 returns the simple RN of a / b  *)
(* when b divides a, whatever the sign of b, and otherwise a TrueDiv RN of *)
(* two coprime integers with the same quotient; a division by 0 raises     *)
(* ZeroDivisionError.                                                      *)
C27_TrueDivNoneNone ==
    ArithmeticCalled /\ arg[1] = "truediv" =>
        IF arg[3] = 0 THEN ret.status = "ZeroDivisionError"
        ELSE /\ ret.status = "ok"
             /\ IF arg[2] % Abs(arg[3]) = 0
                THEN ret.val = RN(FloorDivide(arg[2], arg[3]))
                ELSE /\ ret.val.op = "truediv"
                     /\ math_gcd(TermInt(ret.val, 1), TermInt(ret.val, 2)) = 1
                     /\ TermInt(ret.val, 1) * arg[3] = arg[2] * TermInt(ret.val, 2)

-----------------------------------------------------------------------------
(* The steps of __parse_num_den, read from the outcome of reduce_rn.       *)

(* __parse_num_den reduced both linears: __reduce_num_den was called.      *)
NumDenCalled == RnCalled /\ ret.linears # <<>>

(* The two reduced linears are proportional: same length, same radicals,   *)
(* and the coefficients of the numerator in one ratio to those of a        *)
(* denominator without zero coefficient.                                   *)
DirectRatio(num, den) ==
    /\ Len(num) = Len(den)
    /\ SameRadicals(num, den)
    /\ \A k \in DOMAIN den : den[k][1] # 0
    /\ \A k \in DOMAIN num : num[k][1] * den[1][1] = num[1][1] * den[k][1]

(* C22: when the reduced numerator and denominator have the same length,   *)
(* the same radicals and proportional coefficients, __reduce_num_den       *)
(* returns p over q, two rational units, with p / q exactly the ratio of   *)
(* the first coefficients, gcd(p, q) = 1 and q > 0 (q = 1 exactly when the *)
(* ratio is an integer), whatever the size of the coefficients.            *)
C22_DirectRatioExact ==
    NumDenCalled /\ DirectRatio(ret.linears[1], ret.linears[2]) =>
        /\ ret.common # <<>>
        /\ Len(ret.common[1]) = 1 /\ Len(ret.common[2]) = 1
        /\ ret.common[1][1][2] = 1 /\ ret.common[1][1][3] = 1
        /\ ret.common[2][1][2] = 1 /\ ret.common[2][1][3] = 1
        /\ ret.common[2][1][1] > 0
        /\ math_gcd(ret.common[1][1][1], ret.common[2][1][1]) = 1
        /\ ret.common[1][1][1] * ret.linears[2][1][1]
              = ret.common[2][1][1] * ret.linears[1][1][1]

(* __rationalize_num_den was called on a denominator of one unit, of index *)
(* above 1 (the direct ratio leaves a rational denominator when it         *)
(* applies).                                                               *)
MonomialCase ==
    /\ NumDenCalled
    /\ ret.common # <<>>
    /\ Len(ret.common[2]) = 1
    /\ ret.common[2][1][3] > 1

(* C23: for a reduced denominator of one irrational unit (c, r, j),        *)
(* __rationalize_num_den returns the denominator (r, 1, 1) and a numerator *)
(* that keeps the value of the fraction: new numerator times old           *)
(* denominator equals old numerator times new denominator (compared        *)
(* exactly for square roots).                                              *)
C23_MonomialRationalization ==
    MonomialCase =>
        /\ ret.parsed # <<>>
        /\ ret.parsed[2] = << <<ret.common[2][1][2], 1, 1>> >>
        /\ Quadratic(ret.common[1]) /\ Quadratic(ret.common[2]) =>
              /\ Quadratic(ret.parsed[1])
              /\ ExactValue(ProductTerms(ret.parsed[1], ret.common[2]))
                   = ExactValue(ProductTerms(ret.common[1], ret.parsed[2]))

(* The denominator __reduce_num_den returned is out of reach of           *)
(* __rationalize_num_den: three units or more, or two units one of which   *)
(* has an index of 3 or more.                                              *)
OutOfReach ==
    /\ NumDenCalled
    /\ ret.common # <<>>
    /\ \/ Len(ret.common[2]) >= 3
       \/ Len(ret.common[2]) = 2 /\ \E k \in {1, 2} : ret.common[2][k][3] >= 3

(* C24: a reduced denominator of three or more units, or of two units one  *)
(* of which has index 3 or more, is left as it is: __parse_num_den returns *)
(* numerator and denominator exactly as __reduce_num_den returned them.    *)
C24_OutOfReachLeftAsIs ==
    OutOfReach => ret.parsed = ret.common

C24_Witness ==
    /\ OutOfReach
    /\ Len(ret.common[2]) = 3
    /\ \E k \in 1..3 : ret.common[2][k][3] = 2
    /\ ret.parsed = ret.common

-----------------------------------------------------------------------------
(* reduce_rn reached fill_size_difference: __parse_num_den returned and    *)
(* the first coefficient of the denominator is not 0.                      *)
FillCalled == RnCalled /\ ret.parsed # <<>> /\ ret.parsed[2][1][1] # 0

(* The denominator reduce_rn passes on: the unit 1 when the first          *)
(* coefficient of the numerator is 0.                                      *)
DenToFill ==
    IF ret.parsed[1][1][1] = 0 THEN << <<1, 1, 1>> >> ELSE ret.parsed[2]

(* The linear extended with fillers [0, 1, 1] up to n units.               *)
Padded(linear, n) ==
    [k \in 1..n |-> IF k <= Len(linear) THEN linear[k] ELSE <<0, 1, 1>>]

LongerLen(a, b) == IF Len(a) >= Len(b) THEN Len(a) ELSE Len(b)

(* C25: after the fill_size_difference call that ends reduce_rn, numerator *)
(* and denominator have the same number of units whatever the two lengths  *)
(* were: the shorter of the two, whichever it is, got as many fillers      *)
(* (0, 1, 1) as the lengths differ by, and the longer is unchanged.        *)
C25_FillEqualLengths ==
    FillCalled =>
        /\ ret.status = "ok"
        /\ ret.val = <<Padded(ret.parsed[1], LongerLen(ret.parsed[1], DenToFill)),
                       Padded(DenToFill, LongerLen(ret.parsed[1], DenToFill))>>

-----------------------------------------------------------------------------
(* C26: after __reduce_linear, __parse_num_den (through reduce_rn) or      *)
(* reduce_rn returns or raises, the arrays the caller passed hold the same *)
(* units as before the call, and linear_conjugate leaves its argument as   *)
(* it was.                                                                 *)
C26_InputsNotMutated ==
    op \in {"reduce_linear", "reduce_rn", "linear_conjugate"} => passed = arg

-----------------------------------------------------------------------------
(* The unit is a root: its index is above 1.                               *)
IsRoot(u) == u[3] > 1

(* |w| = |u| * |v|, prime by prime: with L the index of w, the exponent of *)
(* p in |w| ^ (L * i * i') is i*i'*(L*v_p(c_w) + v_p(r_w)), and in         *)
(* (|u| * |v|) ^ (L * i * i') it is                                        *)
(* L * (i*i'*(v_p(c) + v_p(c')) + i'*v_p(r) + i*v_p(r')).                  *)
ProductMagnitude(w, u, v) ==
    \A p \in Primes :
        u[3] * v[3] * (w[3] * Val(p, Abs(w[1])) + Val(p, Abs(w[2])))
          = w[3] * (u[3] * v[3] * (Val(p, Abs(u[1])) + Val(p, Abs(v[1])))
                      + v[3] * Val(p, Abs(u[2])) + u[3] * Val(p, Abs(v[2])))

(* C28: the product linears_product computes for two reduced roots u and v *)
(* of positive index (a negative radicand under an odd index included) is  *)
(* a valid root, without a negative radicand under an even index, and      *)
(* denotes value(u) * value(v): its sign is sign(u) * sign(v).             *)
C28_RadicalProductValue ==
    ProductCalled =>
        \A i \in 1..Len(arg[1]), j \in 1..Len(arg[2]) :
            IsRoot(arg[1][i]) /\ IsRoot(arg[2][j]) =>
                /\ ret.status = "ok"
                /\ ValidRoot(ret.val[(i - 1) * Len(arg[2]) + j])
                /\ UnitSign(ret.val[(i - 1) * Len(arg[2]) + j])
                      = UnitSign(arg[1][i]) * UnitSign(arg[2][j])
                /\ ProductMagnitude(ret.val[(i - 1) * Len(arg[2]) + j],
                                    arg[1][i], arg[2][j])

-----------------------------------------------------------------------------
(* The linear, of units of index 1 or 2, has a value other than zero.      *)
IsNonzeroLinear(linear) ==
    Quadratic(linear) /\ ExactValue(UnitTerms(linear)) # {}

(* C29: reduce_rn raises ZeroDivisionError only for a denominator of value *)
(* zero: when the raw denominator denotes a number other than zero,        *)
(* reduce_rn does not raise ZeroDivisionError, and the denominator it      *)
(* returns denotes a number other than zero.                               *)
C29_ZeroDivisionOnlyForZero ==
    RnCalled /\ IsNonzeroLinear(arg[2]) =>
        /\ ret.status # "ZeroDivisionError"
        /\ ret.status = "ok" /\ Quadratic(ret.val[2]) => IsNonzeroLinear(ret.val[2])

-----------------------------------------------------------------------------
(* The run of factorization_generator.                                     *)

GeneratorCalled == op = "factorization_generator"

GeneratorEnded == GeneratorCalled /\ ret.status = "ok"

(* The candidate is at most one step of the loop (2) above the stop value  *)
(* abs(n) ** 0.5 + 2.                                                      *)
WithinOneStep(i, n0) == i <= 4 \/ (i - 4) * (i - 4) <= n0

(* The safety part of C30: no candidate beyond the stop value plus one     *)
(* step, and exactly one value yielded for 0, 1, -1 and the primes.        *)
GeneratorBounded ==
    GeneratorCalled =>
        /\ WithinOneStep(ret.i, Abs(arg))
        /\ (ret.status = "ok" /\ (Abs(arg) \in {0, 1} \/ IsPrime(Abs(arg))))
              => ret.val = <<Abs(arg)>>

(* C30: factorization_generator(n) terminates for every integer n: it ends *)
(* after yielding finitely many values (exactly one for 0, 1, -1 and for   *)
(* every prime), and it never examines a candidate above abs(n) ** 0.5 + 2 *)
(* plus one step.                                                          *)
C30_GeneratorTerminates ==
    /\ [] GeneratorBounded
    /\ GeneratorCalled ~> GeneratorEnded

(* The generator ended on a composite number after yielding several        *)
(* factors and then the rest of n.                                         *)
C30_Witness ==
    /\ GeneratorEnded
    /\ arg = -42
    /\ ret.val = <<2, 3, 7>>

=============================================================================
